---- MODULE Spec2Model ----
(***************************************************************************)
(* Examply backend: the upload / import administration API                  *)
(* (app/api/upload.py), the import pipeline (app/services/import_service.py)*)
(* and the PDF security utility (app/utils/pdf_security.py).                *)
(*                                                                          *)
(* The server is one process with one event loop (examply_backend/dev.py):  *)
(* a request handler runs without interruption between two points where it  *)
(* really suspends.  upload_pdf suspends once, at `await file.read()` after *)
(* the target file has been opened for writing.  A pipeline run is a        *)
(* background task that never suspends (extract_text and _ocr_page contain  *)
(* no suspending await), so while a run executes no handler and no other    *)
(* run is served (LoopFree).  Between the response of the handler that      *)
(* scheduled a task and the start of the task the loop can serve other      *)
(* requests (sending the response can suspend), so scheduled tasks wait in  *)
(* `tasks` and start in any order.                                          *)
(*                                                                          *)
(* Three specifications share the variables.  Spec is the upload / import   *)
(* subsystem.  LearnSpec is the learning API over a problem catalogue:      *)
(* sessions (app/api/sessions.py, app/services/session_service.py),         *)
(* attempts (app/api/attempts.py, app/services/attempt_service.py) and the  *)
(* catalogue (app/api/problems.py).  EngineSpec is the adapter engine       *)
(* (app/pipeline/adapter_engine.py) with the rows the pipeline saves for a  *)
(* parsed problem.                                                          *)
(***************************************************************************)
EXTENDS Integers, Sequences, FiniteSets, TLC

\* ------------------------------------------------------------------ bounds
MaxDocs    == 2      \* SourceDoc rows ever created
MaxJobs    == 2      \* ImportJob rows ever created
MaxTasks   == 2      \* background tasks ever scheduled
MaxTime    == 1      \* clock seconds 0..MaxTime
MaxRequests == 3     \* API requests served in one behaviour
MaxUploads == 2      \* upload requests suspended at the same time
MaxPages   == 2      \* pages of a PDF
MaxBlocks  == 2      \* problem blocks the adapter engine splits a text into
MaxSessions == 2     \* Session rows ever created
MaxAttempts == 2     \* Attempt rows ever created
MaxChoice  == 1      \* largest choice index a client sends
MaxMatches == 1      \* matches of one pattern in a text
MaxLines   == 2      \* choice lines of a problem block
MaxPlain   == 2      \* lines of a block the alternative extraction takes as choices

\* ------------------------------------------------------- program constants
MAX_UPLOAD_MB == 50
SAVE_COMMIT_EVERY == 10
EXTRACT_COMMIT_EVERY == 5
DEFAULT_MAX_PROBLEMS == 50
DEFAULT_PAGE_SIZE == 20

None == "None"
\* None in an Optional[int] column or parameter
NoInt == -1

ALLOWED_CONTENT_TYPES == {"application/pdf"}
ContentTypes == {"application/pdf", "text/plain"}
MaxUploadBytes == MAX_UPLOAD_MB * 1024 * 1024
Sizes == {1024, MaxUploadBytes + 1}

Filenames == {"a.pdf", "b.pdf"}
\* The bytes of an uploaded PDF: one unencrypted document, one encrypted with
\* the password "good".  "empty" is a file opened for writing and not written yet.
Contents  == {"plain", "locked"}
Passwords == {"good", "bad"}
\* What a client sends as (file bytes, password form field).  A password sent
\* with the unencrypted document is never looked at (lines 112-123).
UploadInputs == {<<"plain", None>>, <<"locked", None>>, <<"locked", "good">>, <<"locked", "bad">>}

\* ORM attributes the services use.  SrcAttrs are those of them that the model
\* classes of this tree declare; SpecAttrs those of the documented data model.
UsedAttrs == {"ImportJob.session_name", "SourceDoc.password",
              "Problem.source_doc_id", "Session.source_doc_id"}
SrcAttrs  == {}
SpecAttrs == UsedAttrs

VARIABLES
  declared,   \* ORM attributes the model classes declare (fixed at start-up)
  now,        \* the clock, in seconds
  files,      \* upload directory: storage path -> bytes
  tmpfiles,   \* decrypted temporary files on disk
  docs,       \* SourceDoc table: id -> row
  jobs,       \* ImportJob table: id -> row (committed state)
  problems,   \* Problem table: set of rows
  sessions,   \* Session table: set of rows
  session_problems,   \* SessionProblem table: set of rows
  attempts,   \* Attempt table: set of rows
  uploads,    \* upload requests suspended at `await file.read()`
  tasks,      \* background tasks scheduled and not started
  runs,       \* background tasks that have started and not returned: id -> frame
  nDocs, nJobs, nTasks, nProblems, nSessions,   \* identifiers handed out so far
  nRequests,  \* requests accepted for handling so far
  nAttempts,  \* Attempt ids handed out so far
  exposed,    \* ids of the problems the public catalogue has returned (history)
  listing,    \* adapter files of the adapters directory, in os.listdir order
  adapters,   \* AdapterEngine.adapters
  best,       \* the last call of select_best_adapter: << >> or <<[text, adapter]>>
  block,      \* the problem block parsed last: << >> or <<block>>
  persisted,  \* the rows saved for that block: << >> or <<[problem, choices]>>
  health,     \* the answer to the last health request: << >> or <<response>>
  problem_choices   \* ProblemChoice rows stored by ProblemService (the rows of a
                    \* pipeline problem are part of its problem row)

\* Written by the learning API only, and by the adapter engine only.
learnVars  == <<attempts, nAttempts, exposed>>
engineVars == <<listing, adapters, best, block, persisted>>

vars == <<declared, now, files, tmpfiles, docs, jobs, problems, sessions,
          uploads, tasks, runs, nDocs, nJobs, nTasks, nProblems, nSessions, nRequests,
          session_problems, learnVars, engineVars, health, problem_choices>>

\* An HTTP response: status code and detail.
Response(code, detail) == [code |-> code, detail |-> detail]

\* ------------------------------------------------------------------ files
RemoveFile(fs, p) == [q \in (DOMAIN fs) \ {p} |-> fs[q]]

WriteFile(fs, p, data) == [q \in (DOMAIN fs) \cup {p} |-> IF q = p THEN data ELSE fs[q]]

ReadFile(fs, p) == IF p \in DOMAIN fs THEN fs[p] ELSE None

\* os.remove(p) takes the inode away from every request that still holds it open.
Unlink(ups, p) ==
  [i \in DOMAIN ups |-> IF ups[i].path = p THEN [ups[i] EXCEPT !.linked = FALSE]
                                           ELSE ups[i]]

calculate_sha256(data) == <<"sha256", data>>

\* PDFSecurityHandler.check_encryption: True / False / None (unreadable).
check_encryption(data) ==
  CASE data = "locked" -> "True"
    [] data = "plain"  -> "False"
    [] OTHER           -> None

\* PDFSecurityHandler.validate_password: pikepdf opens an unencrypted file with
\* any password; an encrypted one only with its own; anything else is an error.
validate_password(data, password) ==
  CASE data = "plain"  -> [valid |-> TRUE,  message |-> "Password is correct"]
    [] data = "locked" -> IF password = "good"
                          THEN [valid |-> TRUE,  message |-> "Password is correct"]
                          ELSE [valid |-> FALSE, message |-> "Incorrect password"]
    [] OTHER           -> [valid |-> FALSE, message |-> "Error validating password"]

\* --------------------------------------------------------------- ORM rows
\* ImportJob(source_doc_id=...).  The value of the optional session name is not
\* modelled, only whether the attribute can be read (see `declared`).
\* doneBy is a history field: the run that completed the job.
NewJob(doc) ==
  [source_doc_id |-> doc, status |-> "queued", progress |-> 0, stage |-> "",
   logs |-> <<>>, extracted_count |-> 0, error_message |-> None,
   finished_at |-> FALSE, doneBy |-> 0]

NewDoc(filename, sha, path) ==
  [filename |-> filename, sha256 |-> sha, storage_path |-> path]

JobsOf(d) == {j \in DOMAIN jobs : jobs[j].source_doc_id = d}

\* background_tasks.add_task(...)
NewTask(id, j, kind, password) ==
  [id |-> id, job |-> j, kind |-> kind, password |-> password]

\* ------------------------------------------------------------------ Init
\* No adapter engine has been constructed.
EngineOff ==
  listing = << >> /\ adapters = << >> /\ best = << >> /\ block = << >> /\ persisted = << >>

Init ==
  /\ declared \in {SrcAttrs, SpecAttrs}
  /\ now = 0
  /\ files = << >>
  /\ tmpfiles = {}
  /\ docs = << >>
  /\ jobs = << >>
  /\ problems = {}
  /\ sessions = {}
  /\ uploads = << >>
  /\ tasks = {}
  /\ runs = << >>
  /\ nRequests = 0 /\ nDocs = 0 /\ nJobs = 0 /\ nTasks = 0 /\ nProblems = 0 /\ nSessions = 0
  /\ session_problems = {}
  /\ attempts = {} /\ nAttempts = 0 /\ exposed = {}
  /\ EngineOff
  /\ health = << >>
  /\ problem_choices = {}

\* Mutant: background tasks run beside the event loop (a worker thread).
LoopFree_always == TRUE

\* The event loop is free when no background task is executing: a pipeline run
\* never suspends, so nothing else is served until it returns.
LoopFree == DOMAIN runs = {}

Tick ==
  /\ LoopFree
  /\ now < MaxTime
  /\ now' = now + 1
  /\ UNCHANGED <<declared, files, tmpfiles, docs, jobs, problems, sessions,
                 uploads, tasks, runs, nDocs, nJobs, nTasks, nProblems, nSessions, nRequests>>
  /\ UNCHANGED <<session_problems, learnVars, engineVars, health, problem_choices>>

\* ------------------------------------------------------------ upload_pdf
\* Lines 74-95: a request of the wrong content type or over the size limit is
\* answered 400 before anything is written; no state changes.
upload_refused(ctype, size) ==
  IF ctype \notin ALLOWED_CONTENT_TYPES THEN Response(400, "Invalid file type")
  ELSE IF size > MaxUploadBytes THEN Response(400, "File too large")
  ELSE Response(0, None)

\* Lines 97-105 of an accepted request: the file is opened for writing under
\* <timestamp>_<filename> (which truncates a file already there) and the
\* handler suspends reading the request body.
UploadBegin(filename, data, password, ctype, size) ==
  /\ LoopFree /\ nRequests < MaxRequests /\ nRequests' = nRequests + 1
  /\ upload_refused(ctype, size).code = 0
  /\ Cardinality(DOMAIN uploads) < MaxUploads
  /\ LET path == <<now, filename>>
         slot == CHOOSE i \in 1..MaxUploads : i \notin DOMAIN uploads
     IN /\ files' = WriteFile(files, path, "empty")
        /\ uploads' = [i \in (DOMAIN uploads) \cup {slot} |->
                        IF i = slot
                        THEN [path |-> path, filename |-> filename, data |-> data,
                              password |-> password, linked |-> TRUE]
                        ELSE uploads[i]]
  /\ UNCHANGED <<declared, now, tmpfiles, docs, jobs, problems, sessions, tasks, runs,
                 nDocs, nJobs, nTasks, nProblems, nSessions>>
  /\ UNCHANGED <<session_problems, learnVars, engineVars, health, problem_choices>>

\* buffer.write(content) and close: the bytes reach the path unless the file
\* was removed while the request was suspended.
Written(u) == IF u.linked THEN WriteFile(files, u.path, u.data) ELSE files

\* Mutant: the filename is left out of the query.
Duplicates_by_hash(u) ==
  {d \in DOMAIN docs : docs[d].sha256 = calculate_sha256(ReadFile(Written(u), u.path))}

\* Lines 128-133: the SourceDoc rows with the hash of the written file and the
\* filename of the request.
Duplicates(u) ==
  {d \in DOMAIN docs : /\ docs[d].sha256 = calculate_sha256(ReadFile(Written(u), u.path))
                       /\ docs[d].filename = u.filename}

\* Lines 108-201: which way the rest of the handler goes, and its response.
\* An HTTPException raised inside the try block is caught by `except Exception`
\* (line 197) and re-raised as a 500 whose detail quotes the first one.
upload_outcome(u) ==
  LET bytes == ReadFile(Written(u), u.path)
      enc   == check_encryption(bytes)
      pv    == validate_password(bytes, u.password)
  IN IF enc = "True" /\ u.password # None /\ ~pv.valid
     THEN [way |-> "bad_password", code |-> 500,
           detail |-> IF pv.message = "Incorrect password"
                      THEN "Upload failed: 400: Incorrect password"
                      ELSE "Upload failed: 400: Error validating password"]
     ELSE IF bytes = None
     THEN [way |-> "unreadable", code |-> 500, detail |-> "Upload failed: No such file"]
     ELSE IF Duplicates(u) # {}
     THEN [way |-> "duplicate", code |-> 200, detail |-> "File already uploaded"]
     ELSE [way |-> "created", code |-> 200,
           detail |-> IF enc = "True"
                      THEN (IF u.password = None THEN "PDF is encrypted" ELSE "Password validated")
                      ELSE "PDF is not encrypted"]

\* Lines 105-201: the body is written, then encryption check, password
\* validation, deduplication and the two inserts, without suspending.
UploadFinish(i) ==
  /\ LoopFree
  /\ i \in DOMAIN uploads
  /\ LET u    == uploads[i]
         rest == [k \in (DOMAIN uploads) \ {i} |-> uploads[k]]
         way  == upload_outcome(u).way
     IN CASE way = "bad_password" ->
               \* os.remove(file_path), line 119
               /\ files' = RemoveFile(Written(u), u.path)
               /\ uploads' = Unlink(rest, u.path)
               /\ UNCHANGED <<docs, jobs, nDocs, nJobs>>
          [] way = "unreadable" ->
               /\ files' = Written(u)
               /\ uploads' = rest
               /\ UNCHANGED <<docs, jobs, nDocs, nJobs>>
          [] way = "duplicate" ->
               \* os.remove(file_path), line 139; the job returned is .first()
               /\ files' = RemoveFile(Written(u), u.path)
               /\ uploads' = Unlink(rest, u.path)
               /\ UNCHANGED <<docs, nDocs>>
               /\ \E d \in Duplicates(u) :
                    IF JobsOf(d) # {}
                    THEN UNCHANGED <<jobs, nJobs>>
                    ELSE /\ nJobs < MaxJobs
                         /\ nJobs' = nJobs + 1
                         /\ jobs' = [j \in (DOMAIN jobs) \cup {nJobs + 1} |->
                                      IF j = nJobs + 1 THEN NewJob(d) ELSE jobs[j]]
          [] way = "created" ->
               /\ nDocs < MaxDocs /\ nJobs < MaxJobs
               /\ files' = Written(u)
               /\ uploads' = rest
               /\ nDocs' = nDocs + 1
               /\ nJobs' = nJobs + 1
               /\ docs' = [d \in (DOMAIN docs) \cup {nDocs + 1} |->
                            IF d = nDocs + 1
                            THEN NewDoc(u.filename,
                                        calculate_sha256(ReadFile(Written(u), u.path)),
                                        u.path)
                            ELSE docs[d]]
               /\ jobs' = [j \in (DOMAIN jobs) \cup {nJobs + 1} |->
                            IF j = nJobs + 1 THEN NewJob(nDocs + 1) ELSE jobs[j]]
  /\ UNCHANGED <<declared, now, tmpfiles, problems, sessions, tasks, runs,
                 nTasks, nProblems, nSessions, nRequests>>
  /\ UNCHANGED <<session_problems, learnVars, engineVars, health, problem_choices>>

\* ---------------------------------------------------------- start_import
\* Reading job.session_name (line 231) raises AttributeError when ImportJob does
\* not declare it: the commit of line 228 has happened, nothing is scheduled and
\* the global handler of main.py answers 500.
start_import_outcome(j) ==
  IF j \notin DOMAIN jobs THEN Response(404, "Job not found")
  ELSE IF jobs[j].status \notin {"error", "queued"}
  THEN Response(400, "Job already started or completed")
  ELSE IF "ImportJob.session_name" \notin declared
  THEN Response(500, "Internal server error")
  ELSE Response(200, "Import started")

\* Mutant: the reset leaves the error message of the failed run.
ResetAfterError_keep_message(job) ==
  [job EXCEPT !.status = "queued", !.progress = 0, !.stage = "waiting",
              !.finished_at = FALSE,
              !.logs = <<"Job reset after error", "Import process started">>]

\* Lines 213-220.  Only an assignment to job.logs reaches the store (the JSON
\* column does not track in-place appends), so the two lines logged after
\* `job.logs = []` are stored and the line logged on a queued job is not.
ResetAfterError(job) ==
  [job EXCEPT !.status = "queued", !.progress = 0, !.stage = "waiting",
              !.error_message = None, !.finished_at = FALSE,
              !.logs = <<"Job reset after error", "Import process started">>]

start_import(j) ==
  /\ LoopFree /\ nRequests < MaxRequests /\ nRequests' = nRequests + 1
  /\ LET code == start_import_outcome(j).code
     IN IF code \in {404, 400}
        THEN UNCHANGED <<jobs, tasks, nTasks>>
        ELSE /\ jobs' = [jobs EXCEPT ![j] =
                          [(IF @.status = "error" THEN ResetAfterError(@) ELSE @)
                             EXCEPT !.status = "running"]]
             /\ IF code = 200
                THEN /\ nTasks < MaxTasks
                     /\ nTasks' = nTasks + 1
                     /\ tasks' = tasks \cup {NewTask(nTasks + 1, j, "plain", None)}
                ELSE UNCHANGED <<tasks, nTasks>>
  /\ UNCHANGED <<declared, now, files, tmpfiles, docs, problems, sessions, uploads, runs,
                 nDocs, nJobs, nProblems, nSessions>>
  /\ UNCHANGED <<session_problems, learnVars, engineVars, health, problem_choices>>

\* ----------------------------------------------------- unlock_encrypted_pdf
unlock_outcome(j, password) ==
  IF j \notin DOMAIN jobs THEN Response(404, "Job not found")
  ELSE IF jobs[j].source_doc_id \notin DOMAIN docs
  THEN Response(404, "Source document not found")
  ELSE LET pv == validate_password(ReadFile(files, docs[jobs[j].source_doc_id].storage_path),
                                   password)
       IN IF ~pv.valid THEN Response(400, pv.message)
          ELSE IF "ImportJob.session_name" \notin declared
          THEN Response(500, "Internal server error")
          ELSE Response(200, "PDF unlocked successfully")

\* No check of the job's status: any existing job is set to running.
unlock_encrypted_pdf(j, password) ==
  /\ LoopFree /\ nRequests < MaxRequests /\ nRequests' = nRequests + 1
  /\ LET code == unlock_outcome(j, password).code
     IN IF code \in {404, 400}
        THEN UNCHANGED <<jobs, tasks, nTasks>>
        ELSE /\ jobs' = [jobs EXCEPT ![j].status = "running"]
             /\ IF code = 200
                THEN /\ nTasks < MaxTasks
                     /\ nTasks' = nTasks + 1
                     /\ tasks' = tasks \cup {NewTask(nTasks + 1, j, "password", password)}
                ELSE UNCHANGED <<tasks, nTasks>>
  /\ UNCHANGED <<declared, now, files, tmpfiles, docs, problems, sessions, uploads, runs,
                 nDocs, nJobs, nProblems, nSessions>>
  /\ UNCHANGED <<session_problems, learnVars, engineVars, health, problem_choices>>

\* ------------------------------------------------------- delete_import_job
delete_outcome(j) ==
  IF j \notin DOMAIN jobs THEN Response(404, "Job not found")
                          ELSE Response(200, "Job deleted successfully")

\* Mutant: only the job row is deleted.
delete_job_only(j, removed) ==
  /\ LoopFree /\ nRequests < MaxRequests /\ nRequests' = nRequests + 1
  /\ IF delete_outcome(j).code = 404
     THEN UNCHANGED jobs
     ELSE jobs' = [k \in (DOMAIN jobs) \ {j} |-> jobs[k]]
  /\ UNCHANGED <<declared, now, files, tmpfiles, docs, problems, sessions, uploads, tasks,
                 runs, nDocs, nJobs, nTasks, nProblems, nSessions>>
  /\ UNCHANGED <<session_problems, learnVars, engineVars, health, problem_choices>>

\* os.remove of the stored file may fail (`removed` false); the failure is
\* printed and the rows are deleted all the same (lines 303-310).
delete_import_job(j, removed) ==
  /\ LoopFree /\ nRequests < MaxRequests /\ nRequests' = nRequests + 1
  /\ IF delete_outcome(j).code = 404
     THEN UNCHANGED <<jobs, docs, files, uploads>>
     ELSE LET d      == jobs[j].source_doc_id
              others == JobsOf(d) \ {j}
          IN /\ jobs' = [k \in (DOMAIN jobs) \ {j} |-> jobs[k]]
             /\ IF d \in DOMAIN docs /\ others = {}
                THEN /\ docs' = [k \in (DOMAIN docs) \ {d} |-> docs[k]]
                     /\ IF docs[d].storage_path \in DOMAIN files /\ removed
                        THEN /\ files' = RemoveFile(files, docs[d].storage_path)
                             /\ uploads' = Unlink(uploads, docs[d].storage_path)
                        ELSE UNCHANGED <<files, uploads>>
                ELSE UNCHANGED <<docs, files, uploads>>
  /\ UNCHANGED <<declared, now, tmpfiles, problems, sessions, tasks, runs,
                 nDocs, nJobs, nTasks, nProblems, nSessions>>
  /\ UNCHANGED <<session_problems, learnVars, engineVars, health, problem_choices>>

\* ------------------------------------------------ ImportService: a run
\* A frame of process_import_job ("plain") or process_import_job_with_password
\* ("password"): obj is the ImportJob object held by the run's own DB session,
\* pc the statement it stands at, n/k the length and index of the loop it is in,
\* cnt the problems parsed (while parsing) or saved (while saving), text whether
\* a page with text was seen, tmp whether a decrypted temporary file was made,
\* err the message of the exception that reached the `except` block.
NewRun(task, job) ==
  [job |-> task.job, kind |-> task.kind, password |-> task.password, obj |-> job,
   pc |-> "analysis", n |-> 0, k |-> 0, cnt |-> 0, text |-> FALSE, tmp |-> FALSE,
   err |-> None]

\* ImportJob.update_progress.  Its add_log appends to the list in place, which
\* the JSON column does not track: the stored logs do not change.
update_progress(job, progress, stage) ==
  [job EXCEPT !.progress = progress, !.stage = stage]

\* Mutant: the except block does not record when the run ended.
Fail_unfinished(f, msg) ==
  [f EXCEPT !.obj = [@ EXCEPT !.status = "error", !.error_message = msg,
                              !.finished_at = FALSE],
            !.err = msg, !.pc = "finally"]

\* Mutant: the failure is recorded and the run goes on with the next statement.
Fail_and_continue(f, msg) ==
  [f EXCEPT !.obj = [@ EXCEPT !.status = "error", !.error_message = msg,
                              !.finished_at = TRUE],
            !.err = msg]

\* The `except Exception` block of a run (lines 196-205, 384-393).
Fail(f, msg) ==
  [f EXCEPT !.obj = [@ EXCEPT !.status = "error", !.error_message = msg,
                              !.finished_at = TRUE],
            !.err = msg, !.pc = "finally"]

\* The run moves to frame f; with `commit` its job object is written to the store.
Step(t, f, commit) ==
  /\ runs' = [runs EXCEPT ![t] = f]
  /\ jobs' = IF commit THEN [jobs EXCEPT ![f.job] = f.obj] ELSE jobs

TaskOf(t) == CHOOSE task \in tasks : task.id = t

\* Lines 32-45: the background task starts when the loop is free.
RunBegin(t) ==
  /\ LoopFree
  /\ \E task \in tasks : task.id = t
  /\ tasks' = tasks \ {TaskOf(t)}
  /\ LET task == TaskOf(t) IN
     IF task.job \notin DOMAIN jobs
     THEN UNCHANGED <<runs, jobs>>
     ELSE IF jobs[task.job].source_doc_id \notin DOMAIN docs
     THEN /\ jobs' = [jobs EXCEPT ![task.job].status = "error",
                                  ![task.job].error_message = "Source document not found"]
          /\ UNCHANGED runs
     ELSE /\ runs' = [r \in (DOMAIN runs) \cup {t} |->
                        IF r = t THEN NewRun(task, jobs[task.job]) ELSE runs[r]]
          /\ UNCHANGED jobs
  /\ UNCHANGED <<declared, now, files, tmpfiles, docs, problems, sessions, uploads,
                 nDocs, nJobs, nTasks, nProblems, nSessions, nRequests>>
  /\ UNCHANGED <<session_problems, learnVars, engineVars, health, problem_choices>>

\* PDFSecurityHandler.create_decrypted_tempfile: pikepdf opens the stored file
\* with the password and saves a decrypted copy.
decrypt_error(data, password) ==
  CASE data = "plain"  -> None
    [] data = "locked" -> IF password = "good" THEN None ELSE "Incorrect password"
    [] OTHER           -> "Failed to decrypt PDF"

\* Step 1 (lines 48-57, 227-245).
RunAnalysis(t) ==
  /\ t \in DOMAIN runs /\ runs[t].pc = "analysis"
  /\ LET f    == [runs[t] EXCEPT !.obj = update_progress(@, 5, "analysis"),
                                 !.pc = "extract", !.password = None]
         path == docs[f.obj.source_doc_id].storage_path
         derr == decrypt_error(ReadFile(files, path), runs[t].password)
     IN IF path \notin DOMAIN files
        THEN Step(t, Fail(f, "File not found"), TRUE) /\ UNCHANGED tmpfiles
        ELSE IF runs[t].kind = "password" /\ derr # None
        THEN Step(t, Fail(f, derr), TRUE) /\ UNCHANGED tmpfiles
        ELSE IF runs[t].kind = "password"
        THEN Step(t, [f EXCEPT !.tmp = TRUE], TRUE) /\ tmpfiles' = tmpfiles \cup {t}
        ELSE Step(t, f, TRUE) /\ UNCHANGED tmpfiles
  /\ UNCHANGED <<declared, now, files, docs, problems, sessions, uploads, tasks,
                 nDocs, nJobs, nTasks, nProblems, nSessions, nRequests>>
  /\ UNCHANGED <<session_problems, learnVars, engineVars, health, problem_choices>>

\* Mutant: the offset of the extraction band is left out.
extraction_progress_no_offset(progress) == progress \div 2

\* ImportService._update_extraction_progress: int(progress * 0.5) is the floor.
extraction_progress(progress) == 10 + (progress \div 2)

extraction_commits(progress) == progress % EXTRACT_COMMIT_EVERY = 0

\* TextExtractor.extract_text up to the first callback: what fitz makes of the
\* file.  The plain run hands it the stored file and source_doc.password, to
\* which upload_pdf gave None; the password run the decrypted temporary file.
open_error(f, fs) ==
  LET data == ReadFile(fs, docs[f.obj.source_doc_id].storage_path)
  IN IF f.kind = "password" THEN None
     ELSE CASE data = "plain"  -> None
            [] data = "locked" -> "PDF is encrypted"
            [] data = None     -> "PDF file not found"
            [] OTHER           -> "Cannot open PDF"

\* Step 2, first part (lines 59-68, 247-256; extract_text to callback(0)).
RunExtractOpen(t) ==
  /\ t \in DOMAIN runs /\ runs[t].pc = "extract"
  /\ LET f == [runs[t] EXCEPT !.obj = update_progress(@, 10, "extraction")]
     IN IF f.kind = "plain" /\ "SourceDoc.password" \notin declared
        THEN Step(t, Fail(f, "AttributeError"), TRUE)
        ELSE IF open_error(f, files) # None
        THEN Step(t, Fail(f, open_error(f, files)), TRUE)
        ELSE \E total_pages \in 1..MaxPages :
               Step(t, [f EXCEPT !.obj = update_progress(@, extraction_progress(0), "extraction"),
                                 !.pc = "pages", !.n = total_pages, !.k = 0],
                    TRUE)
  /\ UNCHANGED <<declared, now, files, tmpfiles, docs, problems, sessions, uploads, tasks,
                 nDocs, nJobs, nTasks, nProblems, nSessions, nRequests>>
  /\ UNCHANGED <<session_problems, learnVars, engineVars, health, problem_choices>>

\* One pass of the page loop of extract_text: the callback with
\* int(page_num / total_pages * 100); the page yields text or none.  The OCR
\* and failure callbacks repeat the same value.
RunExtractPage(t) ==
  /\ t \in DOMAIN runs /\ runs[t].pc = "pages" /\ runs[t].k < runs[t].n
  /\ LET f == runs[t]
         page_progress == (f.k * 100) \div f.n
     IN \E has_text \in BOOLEAN :
          Step(t, [f EXCEPT !.obj = update_progress(@, extraction_progress(page_progress),
                                                    "extraction"),
                            !.k = @ + 1, !.text = @ \/ has_text],
               extraction_commits(page_progress))
  /\ UNCHANGED <<declared, now, files, tmpfiles, docs, problems, sessions, uploads, tasks,
                 nDocs, nJobs, nTasks, nProblems, nSessions, nRequests>>
  /\ UNCHANGED <<session_problems, learnVars, engineVars, health, problem_choices>>

\* End of extract_text: callback(100), then the blank-text check (lines 70-71).
RunExtractDone(t) ==
  /\ t \in DOMAIN runs /\ runs[t].pc = "pages" /\ runs[t].k = runs[t].n
  /\ LET f == [runs[t] EXCEPT !.obj = update_progress(@, extraction_progress(100), "extraction"),
                              !.n = 0, !.k = 0]
     IN IF ~f.text
        THEN Step(t, Fail(f, "No text extracted"), TRUE)
        ELSE Step(t, [f EXCEPT !.pc = "parse"], TRUE)
  /\ UNCHANGED <<declared, now, files, tmpfiles, docs, problems, sessions, uploads, tasks,
                 nDocs, nJobs, nTasks, nProblems, nSessions, nRequests>>
  /\ UNCHANGED <<session_problems, learnVars, engineVars, health, problem_choices>>

\* parsing_progress_callback: 60 + int((current / total) * 100 * 20 / 100).
parsing_progress(current, total) == 60 + ((current * 20) \div total)

\* Step 3 (lines 75-78) and parse_problems up to its loop: the text splits into
\* total_blocks blocks (none when no adapter suits it).
RunParseStart(t) ==
  /\ t \in DOMAIN runs /\ runs[t].pc = "parse"
  /\ \E total_blocks \in 0..MaxBlocks :
       Step(t, [runs[t] EXCEPT !.obj = update_progress(@, 60, "parsing"),
                               !.pc = "blocks", !.n = total_blocks, !.k = 0, !.cnt = 0],
            TRUE)
  /\ UNCHANGED <<declared, now, files, tmpfiles, docs, problems, sessions, uploads, tasks,
                 nDocs, nJobs, nTasks, nProblems, nSessions, nRequests>>
  /\ UNCHANGED <<session_problems, learnVars, engineVars, health, problem_choices>>

\* One pass of the loop of parse_problems: the callback, then the block yields
\* a problem or is counted as failed.
RunParseBlock(t) ==
  /\ t \in DOMAIN runs /\ runs[t].pc = "blocks" /\ runs[t].k < runs[t].n
  /\ LET f == runs[t]
     IN \E parsed \in BOOLEAN :
          Step(t, [f EXCEPT !.obj = update_progress(@, parsing_progress(f.k + 1, f.n), "parsing"),
                            !.k = @ + 1, !.cnt = IF parsed THEN @ + 1 ELSE @],
               TRUE)
  /\ UNCHANGED <<declared, now, files, tmpfiles, docs, problems, sessions, uploads, tasks,
                 nDocs, nJobs, nTasks, nProblems, nSessions, nRequests>>
  /\ UNCHANGED <<session_problems, learnVars, engineVars, health, problem_choices>>

\* Lines 95-105: no parsed problem is an error; otherwise step 4 begins.
RunSaveStart(t) ==
  /\ t \in DOMAIN runs /\ runs[t].pc = "blocks" /\ runs[t].k = runs[t].n
  /\ LET f == runs[t]
     IN IF f.cnt = 0
        THEN Step(t, Fail(f, "No problems found"), TRUE)
        ELSE Step(t, [f EXCEPT !.obj = update_progress(@, 80, "saving"),
                               !.pc = "saving", !.n = f.cnt, !.k = 0, !.cnt = 0],
                  TRUE)
  /\ UNCHANGED <<declared, now, files, tmpfiles, docs, problems, sessions, uploads, tasks,
                 nDocs, nJobs, nTasks, nProblems, nSessions, nRequests>>
  /\ UNCHANGED <<session_problems, learnVars, engineVars, health, problem_choices>>

\* int(80 + (saved_count / len(parsed_problems)) * 15)
saving_progress(saved_count, total) == 80 + ((saved_count * 15) \div total)

\* One pass of the save loop (lines 106-146): the problem is stored and counted,
\* or its exception is caught and logged and the loop goes on.  A stored row
\* records the run that saved it (history).
RunSaveProblem(t) ==
  /\ t \in DOMAIN runs /\ runs[t].pc = "saving" /\ runs[t].k < runs[t].n
  /\ LET f == runs[t]
     IN \E saved \in BOOLEAN :
          IF saved
          THEN /\ problems' = problems \cup {[id |-> nProblems + 1,
                                              source_doc_id |-> f.obj.source_doc_id,
                                              by |-> t]}
               /\ nProblems' = nProblems + 1
               /\ Step(t, [f EXCEPT !.obj = update_progress(@, saving_progress(f.cnt + 1, f.n),
                                                            "saving"),
                                    !.k = @ + 1, !.cnt = @ + 1],
                       (f.cnt + 1) % SAVE_COMMIT_EVERY = 0)
          ELSE /\ Step(t, [f EXCEPT !.k = @ + 1], FALSE)
               /\ UNCHANGED <<problems, nProblems>>
  /\ UNCHANGED <<declared, now, files, tmpfiles, docs, sessions, uploads, tasks,
                 nDocs, nJobs, nTasks, nSessions, nRequests>>
  /\ UNCHANGED <<session_problems, learnVars, engineVars, health, problem_choices>>

ProblemsOf(d) == {p \in problems : p.source_doc_id = d}

\* The ids of a set of rows in ascending order.
Ordered(S) ==
  LET ids == {p.id : p \in S}
  IN [i \in 1..Cardinality(ids) |->
        CHOOSE x \in ids : Cardinality({y \in ids : y < x}) = i - 1]

\* Mutant: the session of a run is not linked to the document.
NewSession_unlinked(id, d, total, t) ==
  [id |-> id, source_doc_id |-> NoInt, total_problems |-> total,
   current_problem_index |-> 0, last_accessed_at |-> NoInt, by |-> t]

\* A Session row (app/models/session.py).  source_doc_id is None for a session
\* that no document owns; `by` records the run that created the row (history,
\* 0 for the sessions API).
NewSession(id, d, total, t) ==
  [id |-> id, source_doc_id |-> d, total_problems |-> total,
   current_problem_index |-> 0, last_accessed_at |-> NoInt, by |-> t]

\* Mutant: the position of the problem is not recorded.
NewSessionProblem_unordered(s, p, i) ==
  [session_id |-> s, problem_id |-> p, order_index |-> 0,
   is_completed |-> FALSE, started_at |-> NoInt]

\* A SessionProblem row.
NewSessionProblem(s, p, i) ==
  [session_id |-> s, problem_id |-> p, order_index |-> i,
   is_completed |-> FALSE, started_at |-> NoInt]

\* Mutant: only the first problem gets a row.
SessionProblemsFor_first(s, ps) ==
  {NewSessionProblem(s, ps[i], i - 1) : i \in 1..(IF Len(ps) > 0 THEN 1 ELSE 0)}

\* `for index, problem in enumerate(problems)`: one row per problem, numbered from 0.
SessionProblemsFor(s, ps) ==
  {NewSessionProblem(s, ps[i], i - 1) : i \in 1..Len(ps)}

\* Lines 148-153: the commit that ends step 4, then progress 95.
RunSession(t) ==
  /\ t \in DOMAIN runs /\ runs[t].pc = "saving" /\ runs[t].k = runs[t].n
  /\ Step(t, [runs[t] EXCEPT !.obj = update_progress(@, 95, "session"), !.pc = "session"], TRUE)
  /\ UNCHANGED <<declared, now, files, tmpfiles, docs, problems, sessions, uploads, tasks,
                 nDocs, nJobs, nTasks, nProblems, nSessions, nRequests>>
  /\ UNCHANGED <<session_problems, learnVars, engineVars, health, problem_choices>>

\* Step 5 proper (lines 155-181): a session over every problem of the
\* document, one SessionProblem per problem in query order.  The query raises
\* AttributeError if Problem has no source_doc_id; the insert of the session
\* can fail.
RunCreateSession(t) ==
  /\ t \in DOMAIN runs /\ runs[t].pc = "session"
  /\ LET f == runs[t]
         d == f.obj.source_doc_id
     IN IF "Problem.source_doc_id" \notin declared
        THEN /\ Step(t, Fail(f, "AttributeError"), TRUE)
             /\ UNCHANGED <<sessions, session_problems, nSessions>>
        ELSE IF ProblemsOf(d) = {}
        THEN /\ Step(t, [f EXCEPT !.pc = "complete"], FALSE)
             /\ UNCHANGED <<sessions, session_problems, nSessions>>
        ELSE \E created \in BOOLEAN :
               IF created
               THEN /\ sessions' = sessions \cup
                         {NewSession(nSessions + 1, d, Cardinality(ProblemsOf(d)), t)}
                    /\ session_problems' = session_problems \cup
                         SessionProblemsFor(nSessions + 1, Ordered(ProblemsOf(d)))
                    /\ nSessions' = nSessions + 1
                    /\ Step(t, [f EXCEPT !.pc = "complete"], FALSE)
               ELSE /\ Step(t, Fail(f, "Session creation failed"), TRUE)
                    /\ UNCHANGED <<sessions, session_problems, nSessions>>
  /\ UNCHANGED <<declared, now, files, tmpfiles, docs, problems, uploads, tasks,
                 nDocs, nJobs, nTasks, nProblems, nRequests>>
  /\ UNCHANGED <<learnVars, engineVars, health, problem_choices>>

\* Step 6 (lines 183-192).  doneBy records the completing run (history).
Complete(f, t) ==
  [f EXCEPT !.obj = [@ EXCEPT !.status = "done", !.progress = 100, !.stage = "done",
                              !.extracted_count = f.cnt, !.finished_at = TRUE,
                              !.doneBy = t],
            !.pc = "finally"]

RunComplete(t) ==
  /\ t \in DOMAIN runs /\ runs[t].pc = "complete"
  /\ Step(t, Complete(runs[t], t), TRUE)
  /\ UNCHANGED <<declared, now, files, tmpfiles, docs, problems, sessions, uploads, tasks,
                 nDocs, nJobs, nTasks, nProblems, nSessions, nRequests>>
  /\ UNCHANGED <<session_problems, learnVars, engineVars, health, problem_choices>>

\* The run returns; the password run first goes through its `finally` block
\* (lines 395-404): secure_delete removes the temporary file and returns True,
\* or fails, returns False and leaves it, which is only logged.
RunReturn(t) ==
  /\ t \in DOMAIN runs /\ runs[t].pc = "finally"
  /\ runs' = [r \in (DOMAIN runs) \ {t} |-> runs[r]]
  /\ IF runs[t].tmp
     THEN \E deleted \in BOOLEAN : tmpfiles' = IF deleted THEN tmpfiles \ {t} ELSE tmpfiles
     ELSE UNCHANGED tmpfiles
  /\ UNCHANGED <<declared, now, files, docs, jobs, problems, sessions, uploads, tasks,
                 nDocs, nJobs, nTasks, nProblems, nSessions, nRequests>>
  /\ UNCHANGED <<session_problems, learnVars, engineVars, health, problem_choices>>

\* -------------------------------------------------------------------- Next
\* The requests a client can send.
Api ==
  \/ \E f \in Filenames, in \in UploadInputs, t \in ContentTypes, z \in Sizes :
       UploadBegin(f, in[1], in[2], t, z)
  \/ \E i \in 1..MaxUploads : UploadFinish(i)
  \/ \E j \in 1..MaxJobs : start_import(j)
  \/ \E j \in 1..MaxJobs, p \in Passwords : unlock_encrypted_pdf(j, p)
  \/ \E j \in 1..MaxJobs, ok \in BOOLEAN : delete_import_job(j, ok)

\* What the server does by itself: starting a scheduled background task and
\* taking the next step of a run.
Background ==
  \/ \E t \in 1..MaxTasks : RunBegin(t)
  \/ \E t \in 1..MaxTasks : RunAnalysis(t)
  \/ \E t \in 1..MaxTasks : RunExtractOpen(t)
  \/ \E t \in 1..MaxTasks : RunExtractPage(t)
  \/ \E t \in 1..MaxTasks : RunExtractDone(t)
  \/ \E t \in 1..MaxTasks : RunParseStart(t)
  \/ \E t \in 1..MaxTasks : RunParseBlock(t)
  \/ \E t \in 1..MaxTasks : RunSaveStart(t)
  \/ \E t \in 1..MaxTasks : RunSaveProblem(t)
  \/ \E t \in 1..MaxTasks : RunSession(t)
  \/ \E t \in 1..MaxTasks : RunCreateSession(t)
  \/ \E t \in 1..MaxTasks : RunComplete(t)
  \/ \E t \in 1..MaxTasks : RunReturn(t)

Next == Tick \/ Api \/ Background

Spec == Init /\ [][Next]_vars

\* The event loop runs every background task it was given and a run, having no
\* suspension point, goes on to its return.
FairSpec == Spec /\ WF_vars(Background)

\* ============================================================ health checks
\* app/api/health.py.  Everything the server stores: the tables and the files.
stored == <<files, tmpfiles, docs, jobs, problems, sessions, session_problems, attempts>>

\* health_check (lines 12-19): a fixed payload.
health_check_outcome ==
  [code |-> 200, status |-> "healthy", service |-> "examply-api", version |-> "0.1.0",
   database |-> None, error |-> None]

health_check ==
  /\ LoopFree /\ nRequests < MaxRequests /\ nRequests' = nRequests + 1
  /\ health' = <<health_check_outcome>>
  /\ UNCHANGED <<declared, now, files, tmpfiles, docs, jobs, problems, sessions,
                 uploads, tasks, runs, nDocs, nJobs, nTasks, nProblems, nSessions,
                 session_problems, learnVars, engineVars, problem_choices>>

\* What `SELECT 1` can end with: a row, or an exception with this message.
QueryErrors == {None, "unable to open database file"}

\* Mutant: the exception of the query is not caught and the global handler
\* answers.
database_health_check_raises(query_error) ==
  IF query_error = None
  THEN [code |-> 200, status |-> "healthy", service |-> None, version |-> None,
        database |-> "connected", error |-> None]
  ELSE [code |-> 500, status |-> None, service |-> None, version |-> None,
        database |-> None, error |-> "Internal server error"]

\* database_health_check (lines 22-37): the query runs inside try, and the
\* except branch returns a payload.
database_health_check_outcome(query_error) ==
  IF query_error = None
  THEN [code |-> 200, status |-> "healthy", service |-> None, version |-> None,
        database |-> "connected", error |-> None]
  ELSE [code |-> 200, status |-> "unhealthy", service |-> None, version |-> None,
        database |-> "disconnected", error |-> query_error]

database_health_check(query_error) ==
  /\ LoopFree /\ nRequests < MaxRequests /\ nRequests' = nRequests + 1
  /\ health' = <<database_health_check_outcome(query_error)>>
  /\ UNCHANGED <<declared, now, files, tmpfiles, docs, jobs, problems, sessions,
                 uploads, tasks, runs, nDocs, nJobs, nTasks, nProblems, nSessions,
                 session_problems, learnVars, engineVars, problem_choices>>

HealthApi ==
  \/ health_check
  \/ \E e \in QueryErrors : database_health_check(e)

\* The import subsystem with the health requests served in between.
HealthNext == Next \/ HealthApi

HealthSpec == Init /\ [][HealthNext]_vars

\* ============================================================ learning API
\* The sessions, attempts and problems endpoints (app/api/sessions.py,
\* app/api/attempts.py, app/api/problems.py) over the Problem, Session,
\* SessionProblem and Attempt tables.  No handler of these suspends between its
\* first query and its commit, so each one is a single step.  The Problem
\* table is what earlier imports and content tooling left in the database: the
\* handlers only read it.  Here a Problem row carries the columns they read.

ProblemRow(id, type, index, text, approved, subject, doc) ==
  [id |-> id, problem_type |-> type, correct_answer_index |-> index,
   correct_answer_text |-> text, is_approved |-> approved, subject |-> subject,
   source_doc_id |-> doc, by |-> 0]

\* The rows a catalogue is drawn from: every ProblemType, a problem without a
\* recorded answer, an unapproved problem.  Rows 1 and 2 are as the pipeline
\* stores them (multiple_choice, approved, import_service.py lines 108-120).
Pool ==
  {ProblemRow(1, "multiple_choice", 1, None, TRUE, "math", 1),
   ProblemRow(2, "multiple_choice", NoInt, None, TRUE, "math", 1),
   ProblemRow(3, "true_false", 0, None, TRUE, "logic", NoInt),
   ProblemRow(4, "short_answer", NoInt, "seoul", TRUE, "logic", NoInt),
   ProblemRow(5, "multiple_choice", 0, None, FALSE, "math", NoInt)}

\* The catalogues the database may hold: the rows of the pool with ids lo..hi.
Catalogs ==
  {{p \in Pool : lo <= p.id /\ p.id <= hi} : lo \in 1..Cardinality(Pool), hi \in 0..Cardinality(Pool)}

Subjects == {"math", "logic"}
\* problem ids a client can name: those of the pool and one that no row has
ProblemIds == {p.id : p \in Pool} \cup {Cardinality(Pool) + 1}
\* choice indexes a client can send
ChoiceIndexes == 0..MaxChoice
\* answer texts a client can send
AnswerTexts == {"", " Seoul"}

\* db.get(Problem, id) finds a row / the row it finds.
HasProblem(id) == \E p \in problems : p.id = id
GetProblem(id) == CHOOSE p \in problems : p.id = id

\* db.get(Session, id) finds a row / the row it finds.
HasSession(id) == \E x \in sessions : x.id = id
GetSession(id) == CHOOSE x \in sessions : x.id = id

SessionProblemsOf(s) == {sp \in session_problems : sp.session_id = s}
AttemptsOf(s) == {a \in attempts : a.session_id = s}

\* The database as the learning API finds it.
LearnInit ==
  /\ now = 0
  /\ files = << >> /\ tmpfiles = {} /\ docs = << >> /\ jobs = << >>
  /\ uploads = << >> /\ tasks = {} /\ runs = << >>
  /\ nRequests = 0 /\ nDocs = 0 /\ nJobs = 0 /\ nTasks = 0 /\ nProblems = 0
  /\ problems \in Catalogs
  \* with the documented data model the pipeline gets as far as its step 5
  \* and may have left a session for document 1
  /\ \/ /\ declared = SpecAttrs /\ ProblemsOf(1) # {}
        /\ sessions = {NewSession(1, 1, Cardinality(ProblemsOf(1)), 1)}
        /\ session_problems = SessionProblemsFor(1, Ordered(ProblemsOf(1)))
        /\ nSessions = 1
     \/ /\ declared = SrcAttrs
        /\ sessions = {} /\ session_problems = {} /\ nSessions = 0
  /\ attempts = {} /\ nAttempts = 0 /\ exposed = {}
  /\ EngineOff
  /\ health = << >>
  /\ problem_choices = {}

\* ---------------------------------------------------------------- sessions
\* SessionService.create_session, lines 31-42: the approved problems that match
\* the filter, in store order, at most max_problems of them.
MaxProblemsInputs == {1, DEFAULT_MAX_PROBLEMS}
SelectProblems(subject_filter, max_problems) ==
  LET found == Ordered({p \in problems :
                          /\ p.is_approved
                          /\ (subject_filter # None => p.subject = subject_filter)})
  IN SubSeq(found, 1, IF Len(found) < max_problems THEN Len(found) ELSE max_problems)

\* POST /sessions/ (sessions.py lines 33-54).  The service raises ValueError
\* when nothing matches; the handler does not catch it, so the global handler
\* of main.py answers.
create_session_outcome(subject_filter, max_problems) ==
  IF SelectProblems(subject_filter, max_problems) = << >>
  THEN Response(500, "Internal server error")
  ELSE Response(200, "created")

create_session(subject_filter, max_problems) ==
  /\ nRequests < MaxRequests
  /\ nRequests' = nRequests + 1
  /\ LET ps == SelectProblems(subject_filter, max_problems)
     IN IF ps = << >>
        THEN UNCHANGED <<sessions, session_problems, nSessions>>
        ELSE /\ nSessions < MaxSessions
             /\ sessions' = sessions \cup {NewSession(nSessions + 1, NoInt, Len(ps), 0)}
             /\ session_problems' = session_problems \cup SessionProblemsFor(nSessions + 1, ps)
             /\ nSessions' = nSessions + 1
  /\ UNCHANGED <<declared, now, files, tmpfiles, docs, jobs, problems, uploads, tasks, runs,
                 nDocs, nJobs, nTasks, nProblems, learnVars, engineVars, health, problem_choices>>

\* SessionService.get_next_problem, lines 76-91: the SessionProblems of the
\* session that are not completed, and the one of them with the least
\* order_index.
OpenSessionProblems(s) ==
  IF HasSession(s) THEN {sp \in SessionProblemsOf(s) : ~sp.is_completed} ELSE {}
NextSessionProblem(s) ==
  CHOOSE sp \in OpenSessionProblems(s) :
    \A other \in OpenSessionProblems(s) : sp.order_index <= other.order_index

\* GET /sessions/{id}/next-problem (sessions.py lines 190-210).
get_next_problem_outcome(s) ==
  IF OpenSessionProblems(s) = {}
  THEN Response(404, "No more problems in session")
  ELSE Response(200, "next problem")

get_next_problem(s) ==
  /\ nRequests < MaxRequests
  /\ nRequests' = nRequests + 1
  /\ LET sp == NextSessionProblem(s)
     IN IF OpenSessionProblems(s) = {}
        THEN UNCHANGED <<sessions, session_problems>>
        ELSE /\ sessions' = (sessions \ {GetSession(s)}) \cup
                  {[GetSession(s) EXCEPT !.current_problem_index = sp.order_index,
                                         !.last_accessed_at = now]}
             /\ session_problems' = (session_problems \ {sp}) \cup
                  {[sp EXCEPT !.started_at = IF @ = NoInt THEN now ELSE @]}
  /\ UNCHANGED <<declared, now, files, tmpfiles, docs, jobs, problems, uploads, tasks, runs,
                 nDocs, nJobs, nTasks, nProblems, nSessions, learnVars, engineVars, health, problem_choices>>

\* POST /sessions/{id}/next (sessions.py lines 325-350).
move_to_next_problem_outcome(s) ==
  IF ~HasSession(s) THEN Response(404, "Session not found")
  ELSE IF GetSession(s).current_problem_index + 1 >= GetSession(s).total_problems
  THEN Response(400, "No more problems in session")
  ELSE Response(200, "Moved to next problem")

\* Mutant: the move is made without looking at total_problems.
move_unchecked(s) ==
  /\ nRequests < MaxRequests
  /\ nRequests' = nRequests + 1
  /\ IF HasSession(s)
     THEN sessions' = (sessions \ {GetSession(s)}) \cup
               {[GetSession(s) EXCEPT !.current_problem_index = @ + 1,
                                      !.last_accessed_at = now]}
     ELSE UNCHANGED sessions
  /\ UNCHANGED <<declared, now, files, tmpfiles, docs, jobs, problems, uploads, tasks, runs,
                 nDocs, nJobs, nTasks, nProblems, nSessions, session_problems,
                 learnVars, engineVars, health, problem_choices>>

move_to_next_problem(s) ==
  /\ nRequests < MaxRequests
  /\ nRequests' = nRequests + 1
  /\ IF move_to_next_problem_outcome(s).code = 200
     THEN sessions' = (sessions \ {GetSession(s)}) \cup
               {[GetSession(s) EXCEPT !.current_problem_index = @ + 1,
                                      !.last_accessed_at = now]}
     ELSE UNCHANGED sessions
  /\ UNCHANGED <<declared, now, files, tmpfiles, docs, jobs, problems, uploads, tasks, runs,
                 nDocs, nJobs, nTasks, nProblems, nSessions, session_problems,
                 learnVars, engineVars, health, problem_choices>>

\* An Attempt row (app/models/attempt.py).
NewAttempt(id, problem_id, session_id, answer_index, answer_text, is_correct) ==
  [id |-> id, problem_id |-> problem_id, session_id |-> session_id,
   answer_index |-> answer_index, answer_text |-> answer_text, is_correct |-> is_correct]

\* sessions.py lines 290-296: the SessionProblems at the session's current
\* index, and the first of them.
CurrentSessionProblems(s) ==
  {sp \in SessionProblemsOf(s) :
     sp.order_index = (IF GetSession(s).current_problem_index < 0 THEN 0
                       ELSE GetSession(s).current_problem_index)}
CurrentSessionProblem(s) == CHOOSE sp \in CurrentSessionProblems(s) : TRUE

\* sessions.py lines 307-313: False unless the problem has an answer index and
\* the choice equals it.
answer_is_correct(problem_id, choice_index) ==
  /\ HasProblem(problem_id)
  /\ GetProblem(problem_id).correct_answer_index # NoInt
  /\ choice_index = GetProblem(problem_id).correct_answer_index

\* POST /sessions/{id}/submit-answer (sessions.py lines 277-322).
submit_answer_outcome(s, choice_index) ==
  IF ~HasSession(s) THEN Response(404, "Session not found")
  ELSE IF CurrentSessionProblems(s) = {} THEN Response(404, "No current problem found")
  ELSE Response(200, "Answer submitted")

\* The Attempt is built with user_answer_index, which the table model does not
\* declare: answer_index stays None.
submit_answer(s, choice_index) ==
  /\ nRequests < MaxRequests
  /\ nRequests' = nRequests + 1
  /\ IF submit_answer_outcome(s, choice_index).code = 200
     THEN /\ nAttempts < MaxAttempts
          /\ attempts' = attempts \cup
               {NewAttempt(nAttempts + 1, CurrentSessionProblem(s).problem_id, s, NoInt, None,
                           answer_is_correct(CurrentSessionProblem(s).problem_id,
                                             choice_index))}
          /\ nAttempts' = nAttempts + 1
     ELSE UNCHANGED <<attempts, nAttempts>>
  /\ UNCHANGED <<declared, now, files, tmpfiles, docs, jobs, problems, sessions, uploads,
                 tasks, runs, nDocs, nJobs, nTasks, nProblems, nSessions,
                 session_problems, exposed, engineVars, health, problem_choices>>

\* ---------------------------------------------------------------- attempts
\* answer_text.strip().lower()
strip_lower(text) ==
  CASE text = " Seoul" -> "seoul"
    [] OTHER -> text

\* session ids a client sends with an attempt: none, or the first session's
AttemptSessionIds == {NoInt, 1}

\* What a client sends as (answer_index, answer_text).
AttemptInputs ==
  {<<NoInt, None>>} \cup {<<i, None>> : i \in ChoiceIndexes}
    \cup {<<NoInt, t>> : t \in AnswerTexts}

\* attempt_service.py lines 39-45.
attempt_is_correct(problem, answer_index, answer_text) ==
  IF problem.problem_type = "multiple_choice"
  THEN answer_index = problem.correct_answer_index
  ELSE IF problem.problem_type = "short_answer"
  THEN strip_lower(answer_text) = strip_lower(problem.correct_answer_text)
  ELSE FALSE

\* POST /attempts/ (attempts.py lines 25-57) over AttemptService.submit_attempt.
\* ValueError becomes 400.  With a session id the service calls
\* Session.exec(sql, params) with params as a second positional argument, which
\* exec does not take: TypeError, answered by the global handler, and the
\* pending Attempt is dropped with the request's database session.
submit_attempt_outcome(problem_id, session_id, answer_index, answer_text) ==
  LET problem == GetProblem(problem_id)
  IN IF ~HasProblem(problem_id) THEN Response(400, "Problem not found")
     ELSE IF problem.problem_type = "multiple_choice" /\ answer_index = NoInt
     THEN Response(400, "Answer index required for multiple choice problems")
     ELSE IF problem.problem_type = "short_answer" /\ answer_text \in {None, ""}
     THEN Response(400, "Answer text required for short answer problems")
     ELSE IF problem.problem_type = "short_answer" /\ problem.correct_answer_text = None
     THEN Response(500, "Internal server error")
     ELSE IF session_id \notin {NoInt, 0}
     THEN Response(500, "Internal server error")
     ELSE Response(200, "submitted")

submit_attempt(problem_id, session_id, answer_index, answer_text) ==
  /\ nRequests < MaxRequests
  /\ nRequests' = nRequests + 1
  /\ IF submit_attempt_outcome(problem_id, session_id, answer_index, answer_text).code = 200
     THEN /\ nAttempts < MaxAttempts
          /\ attempts' = attempts \cup
               {NewAttempt(nAttempts + 1, problem_id, session_id, answer_index, answer_text,
                           attempt_is_correct(GetProblem(problem_id), answer_index,
                                              answer_text))}
          /\ nAttempts' = nAttempts + 1
     ELSE UNCHANGED <<attempts, nAttempts>>
  /\ UNCHANGED <<declared, now, files, tmpfiles, docs, jobs, problems, sessions, uploads,
                 tasks, runs, nDocs, nJobs, nTasks, nProblems, nSessions,
                 session_problems, exposed, engineVars, health, problem_choices>>

\* ---------------------------------------------------------- delete session
\* Where the database refuses a DELETE session (sessions.py lines 213-246):
\* nowhere, at the flush that the attempts query triggers, or at the commit.
Faults == {"none", "flush", "commit"}

delete_session_outcome(s, fault) ==
  IF ~HasSession(s) THEN Response(404, "Session not found")
  ELSE IF fault # "none" THEN Response(500, "Failed to delete session")
  ELSE Response(200, "Session deleted successfully")

\* Mutant: each kind of row is deleted in a transaction of its own.
delete_session_by_table(s, fault) ==
  /\ nRequests < MaxRequests
  /\ nRequests' = nRequests + 1
  /\ IF ~HasSession(s) THEN UNCHANGED <<sessions, session_problems, attempts>>
     ELSE /\ session_problems' = session_problems \ SessionProblemsOf(s)
          /\ attempts' = IF fault = "flush" THEN attempts ELSE attempts \ AttemptsOf(s)
          /\ sessions' = IF fault = "none" THEN sessions \ {GetSession(s)} ELSE sessions
  /\ UNCHANGED <<declared, now, files, tmpfiles, docs, jobs, problems, uploads, tasks, runs,
                 nDocs, nJobs, nTasks, nProblems, nSessions, nAttempts, exposed, engineVars, health, problem_choices>>

\* The three deletions belong to one transaction: the commit makes all of them
\* visible, session.rollback() in the except block none.
delete_session(s, fault) ==
  /\ nRequests < MaxRequests
  /\ nRequests' = nRequests + 1
  /\ IF delete_session_outcome(s, fault).code = 200
     THEN /\ session_problems' = session_problems \ SessionProblemsOf(s)
          /\ attempts' = attempts \ AttemptsOf(s)
          /\ sessions' = sessions \ {GetSession(s)}
     ELSE UNCHANGED <<sessions, session_problems, attempts>>
  /\ UNCHANGED <<declared, now, files, tmpfiles, docs, jobs, problems, uploads, tasks, runs,
                 nDocs, nJobs, nTasks, nProblems, nSessions, nAttempts, exposed, engineVars, health, problem_choices>>

\* ---------------------------------------------------------------- problems
PageSizes == {1, DEFAULT_PAGE_SIZE}
Pages == {1, 2}

\* problems.py lines 25-35: the rows the list query selects.
ListQuery(subject) ==
  {p \in problems : p.is_approved /\ (subject # None => p.subject = subject)}

\* GET /problems/ (problems.py lines 14-52): the page of the selection and the
\* count of the whole selection.
list_problems_outcome(subject, page, size) ==
  LET found == Ordered(ListQuery(subject))
      first == (page - 1) * size + 1
      last  == IF Len(found) < page * size THEN Len(found) ELSE page * size
  IN [code |-> 200,
      problems |-> {found[i] : i \in first..last},
      total_count |-> Cardinality(ListQuery(subject))]

list_problems(subject, page, size) ==
  /\ nRequests < MaxRequests
  /\ nRequests' = nRequests + 1
  /\ exposed' = exposed \cup list_problems_outcome(subject, page, size).problems
  /\ UNCHANGED <<declared, now, files, tmpfiles, docs, jobs, problems, sessions, uploads,
                 tasks, runs, nDocs, nJobs, nTasks, nProblems, nSessions,
                 session_problems, attempts, nAttempts, engineVars, health, problem_choices>>

\* Mutant: the lookup by id does not look at is_approved.
get_problem_outcome_any(id) ==
  IF ~HasProblem(id) THEN Response(404, "Problem not found") ELSE Response(200, "problem")

\* GET /problems/{id} (problems.py lines 55-66).
get_problem_outcome(id) ==
  IF ~HasProblem(id) THEN Response(404, "Problem not found")
  ELSE IF ~GetProblem(id).is_approved THEN Response(404, "Problem not found")
  ELSE Response(200, "problem")

get_problem(id) ==
  /\ nRequests < MaxRequests
  /\ nRequests' = nRequests + 1
  /\ exposed' = IF get_problem_outcome(id).code = 200 THEN exposed \cup {id} ELSE exposed
  /\ UNCHANGED <<declared, now, files, tmpfiles, docs, jobs, problems, sessions, uploads,
                 tasks, runs, nDocs, nJobs, nTasks, nProblems, nSessions,
                 session_problems, attempts, nAttempts, engineVars, health, problem_choices>>

\* ------------------------------------------------------------- LearnSpec
SessionIds == 1..MaxSessions

LearnApi ==
  \/ \E f \in Subjects \cup {None}, m \in MaxProblemsInputs : create_session(f, m)
  \/ \E s \in SessionIds : get_next_problem(s)
  \/ \E s \in SessionIds : move_to_next_problem(s)
  \/ \E s \in SessionIds, c \in ChoiceIndexes : submit_answer(s, c)
  \/ \E p \in ProblemIds, s \in AttemptSessionIds, in \in AttemptInputs :
       submit_attempt(p, s, in[1], in[2])
  \/ \E s \in SessionIds, x \in Faults : delete_session(s, x)
  \/ \E f \in Subjects \cup {None}, g \in Pages, z \in PageSizes : list_problems(f, g, z)
  \/ \E p \in ProblemIds : get_problem(p)

LearnNext == Tick \/ LearnApi

LearnSpec == LearnInit /\ [][LearnNext]_vars

\* ========================================================= problem service
\* app/services/problem_service.py, called by app/pipeline/dummy_import.py.
\* The input record: whether it has the key "choices", and for each choice
\* whether it has the key "choice_index".
ChoiceData(has_index, index) == [has_index |-> has_index, choice_index |-> index]

ChoiceLists ==
  {<< >>,
   <<ChoiceData(TRUE, 0), ChoiceData(TRUE, 1)>>,
   <<ChoiceData(TRUE, 0), ChoiceData(FALSE, NoInt)>>}

ProblemInputs ==
  [has_choices : BOOLEAN, choices : ChoiceLists, is_approved : BOOLEAN]

\* Line 19: `Session(get_session())` binds the session to the generator that
\* get_session returns, not to the engine.
BindIsEngine == FALSE

\* The id the store gives a new Problem row.
NextProblemId ==
  IF problems = {} THEN 1
  ELSE 1 + CHOOSE m \in {p.id : p \in problems} : \A p \in problems : p.id <= m

\* The choices the loop of lines 45-52 adds before a choice_data without
\* "choice_index" raises KeyError.
WellFormed(problem_data) ==
  \A k \in 1..Len(problem_data.choices) : problem_data.choices[k].has_index

NewChoices(id, problem_data) ==
  IF problem_data.has_choices /\ WellFormed(problem_data)
  THEN {[problem_id |-> id, choice_index |-> problem_data.choices[k].choice_index] :
          k \in 1..Len(problem_data.choices)}
  ELSE {}

\* create_problem (lines 17-53), which has no await and runs in one piece.
\* The commit of line 40 needs a connection and the generator has none to
\* give: AttributeError, nothing is stored.  Bound to the engine, line 40
\* commits the Problem, and the choices are committed by line 52 unless the
\* loop raises, in which case the pending choices are dropped with the session.
create_problem(problem_data) ==
  /\ LoopFree /\ nRequests < MaxRequests /\ nRequests' = nRequests + 1
  /\ IF ~BindIsEngine
     THEN UNCHANGED <<problems, problem_choices>>
     ELSE /\ problems' = problems \cup
                           {ProblemRow(NextProblemId, "multiple_choice", 0, None,
                                       problem_data.is_approved, "math", NoInt)}
          /\ problem_choices' = problem_choices \cup NewChoices(NextProblemId, problem_data)
  /\ UNCHANGED <<declared, now, files, tmpfiles, docs, jobs, sessions, uploads, tasks, runs,
                 nDocs, nJobs, nTasks, nProblems, nSessions,
                 session_problems, learnVars, engineVars, health>>

\* The learning API with dummy_import creating problems in between.
ServiceNext == LearnNext \/ \E d \in ProblemInputs : create_problem(d)

ServiceSpec == LearnInit /\ [][ServiceNext]_vars

\* =========================================================== adapter engine
\* app/pipeline/adapter_engine.py.  A pattern is a regular expression, named
\* here; a text is what the patterns and literals find in it; a block is what
\* the extraction finds in it.  Scores are counted in halves, so that the
\* weights 2, 1, 3 and 0.5 are 4, 2, 6 and 1.
Patterns == {"q_num", "q_paren", "ans"}
Literals == {"a.", "math"}

Adapter(filename, priority, questions, markers, answers, subjects) ==
  [filename |-> filename, priority |-> priority, question_patterns |-> questions,
   choice_markers |-> markers, answer_patterns |-> answers, subject_patterns |-> subjects]

\* The dict {} that select_best_adapter returns when nothing is loaded: every
\* adapter.get(...) gives its default.
EmptyAdapter == Adapter("", 0, {}, << >>, {}, {})

\* The adapter files a directory may hold.  Two of them have the same priority.
AdapterFiles ==
  {Adapter("exam.yaml", 10, {"q_num"}, <<<<"(1)", "(2)", "(3)">>>>, {"ans"}, {"math"}),
   Adapter("quiz.yaml", 5, {"q_num", "q_paren"},
           <<<<"a.", "b.", "c.">>, <<"(1)", "(2)", "(3)">>>>, {"ans"}, {}),
   Adapter("basic.yml", 5, {"q_paren"}, <<<<"(1)", "(2)", "(3)">>>>, {"ans"}, {})}

\* os.listdir: some of the files, in any order.
Listings ==
  {l \in UNION {[1..n -> AdapterFiles] : n \in 0..Cardinality(AdapterFiles)} :
     \A i, j \in 1..Len(l) : i # j => l[i] # l[j]}

Texts ==
  [matches : [Patterns -> 0..MaxMatches], contains : SUBSET Literals]

\* list.sort(key=priority, reverse=True) is stable: an adapter goes behind
\* every adapter of the same or a higher priority that was loaded before it.
RECURSIVE SortByPriority(_)
SortByPriority(l) ==
  IF l = << >> THEN << >>
  ELSE LET sorted == SortByPriority(SubSeq(l, 1, Len(l) - 1))
           a == l[Len(l)]
           k == Cardinality({i \in 1..Len(sorted) : sorted[i].priority >= a.priority})
       IN SubSeq(sorted, 1, k) \o <<a>> \o SubSeq(sorted, k + 1, Len(sorted))

\* AdapterEngine._load_adapters (lines 31-49).
_load_adapters(l) == SortByPriority(l)

RECURSIVE SumMatches(_, _)
SumMatches(ps, text) ==
  IF ps = {} THEN 0
  ELSE LET p == CHOOSE x \in ps : TRUE
       IN text.matches[p] + SumMatches(ps \ {p}, text)

\* AdapterEngine._score_adapter (lines 64-94), in halves.
_score_adapter(adapter, text) ==
  4 * SumMatches(adapter.question_patterns, text)
  + 2 * Cardinality(UNION {{<<i, j>> : j \in {k \in 1..Len(adapter.choice_markers[i]) :
                                                 adapter.choice_markers[i][k] \in text.contains}} :
                             i \in 1..Len(adapter.choice_markers)})
  + 6 * SumMatches(adapter.answer_patterns, text)
  + Cardinality(adapter.subject_patterns \cap text.contains)

\* Mutant: an adapter that only equals the best score so far replaces it.
Better_or_equal(score, best_score) == score >= best_score

\* Line 58: `if score > best_score`.
Better(score, best_score) == score > best_score

\* The loop of select_best_adapter (lines 53-60) from adapter i on:
\* best_adapter as an index into the list, 0 for None.
RECURSIVE BestFrom(_, _, _, _, _)
BestFrom(l, text, i, best_adapter, best_score) ==
  IF i > Len(l) THEN best_adapter
  ELSE IF Better(_score_adapter(l[i], text), best_score)
  THEN BestFrom(l, text, i + 1, i, _score_adapter(l[i], text))
  ELSE BestFrom(l, text, i + 1, best_adapter, best_score)

\* AdapterEngine.select_best_adapter (lines 51-62):
\* `best_adapter or self.adapters[0] if self.adapters else {}`.
select_best_adapter_of(l, text) ==
  IF l # << >>
  THEN LET best_adapter == BestFrom(l, text, 1, 0, 0)
       IN IF best_adapter # 0 THEN l[best_adapter] ELSE l[1]
  ELSE EmptyAdapter

\* Everything the adapter engine does not write.
restVars == <<declared, now, files, tmpfiles, docs, jobs, problems, sessions,
              uploads, tasks, runs, nDocs, nJobs, nTasks, nProblems, nSessions, nRequests,
              session_problems, learnVars, health, problem_choices>>

\* parse_problems lines 101-106: the adapter for a text is chosen; the blocks
\* of the text are parsed after that.
select_best_adapter(text) ==
  /\ best' = <<[text |-> text, adapter |-> select_best_adapter_of(adapters, text)]>>
  /\ block' = << >> /\ persisted' = << >>
  /\ UNCHANGED <<listing, adapters, restVars>>

\* A problem block: the markers its choice lines start with (each followed by
\* a text of more than one character), the number of lines the alternative
\* extraction takes as choices, and the text the answer pattern captures
\* ("" when no answer pattern matches).
BlockMarkers == {"(1)", "(2)"}
BlockAnswers == {"", "(3)", "b."}
Blocks ==
  [lines : UNION {[1..n -> BlockMarkers] : n \in 0..MaxLines},
   plain : 0..MaxPlain,
   answer : BlockAnswers]

InSet(marker_set) == {marker_set[j] : j \in 1..Len(marker_set)}

\* The choice lines one marker set finds (lines 297-306).
RECURSIVE FoundChoices(_, _)
FoundChoices(lines, marker_set) ==
  IF lines = << >> THEN << >>
  ELSE (IF lines[1] \in InSet(marker_set) THEN <<lines[1]>> ELSE << >>)
       \o FoundChoices(Tail(lines), marker_set)

\* AdapterEngine._extract_choices (lines 286-313) from marker set i on: the
\* marker set that finds the most choices, and at least 2.
RECURSIVE ChoicesFrom(_, _, _, _)
ChoicesFrom(b, adapter, i, choices) ==
  IF i > Len(adapter.choice_markers) THEN choices
  ELSE LET found_choices == FoundChoices(b.lines, adapter.choice_markers[i])
       IN IF Len(found_choices) >= 2 /\ Len(found_choices) > Len(choices)
          THEN ChoicesFrom(b, adapter, i + 1, found_choices)
          ELSE ChoicesFrom(b, adapter, i + 1, choices)

_extract_choices(b, adapter) == ChoicesFrom(b, adapter, 1, << >>)

MAX_CHOICES == 5
MIN_CHOICES == 2

\* AdapterEngine._extract_choices_alternative (lines 315-345).
_extract_choices_alternative(b, adapter) ==
  [k \in 1..(IF b.plain < MAX_CHOICES THEN b.plain ELSE MAX_CHOICES) |-> "plain"]

\* The first marker set that holds the answer text (lines 363-365).
AnswerSets(b, adapter) ==
  {i \in 1..Len(adapter.choice_markers) : b.answer \in InSet(adapter.choice_markers[i])}

IndexIn(marker_set, x) ==
  (CHOOSE j \in 1..Len(marker_set) :
     marker_set[j] = x /\ \A k \in 1..(j - 1) : marker_set[k] # x) - 1

\* AdapterEngine._extract_answer (lines 352-367): the position of the answer
\* text in its marker set; the choices are not looked at.
_extract_answer(b, adapter, choices) ==
  IF adapter.answer_patterns # {} /\ b.answer # "" /\ AnswerSets(b, adapter) # {}
  THEN LET i == CHOOSE x \in AnswerSets(b, adapter) : \A y \in AnswerSets(b, adapter) : x <= y
       IN IndexIn(adapter.choice_markers[i], b.answer)
  ELSE NoInt

ChoicesOf(b, adapter) ==
  LET choices == _extract_choices(b, adapter)
  IN IF Len(choices) < MIN_CHOICES THEN _extract_choices_alternative(b, adapter)
     ELSE choices

\* AdapterEngine._parse_problem_block (lines 213-284): << >> for None.  A block
\* is longer than min_question_length, so a question text is always found.
_parse_problem_block(b, adapter) ==
  LET choices == ChoicesOf(b, adapter)
  IN IF Len(choices) < MIN_CHOICES THEN << >>
     ELSE <<[choices |-> choices,
             correct_answer_index |-> _extract_answer(b, adapter, choices)]>>

\* ImportService.process_import_job, lines 106-132: the Problem row and its
\* ProblemChoice rows.
SavedRows(parsed_problem) ==
  [problem |-> [problem_type |-> "multiple_choice",
                correct_answer_index |-> parsed_problem.correct_answer_index,
                is_approved |-> TRUE],
   choices |-> {[choice_index |-> k - 1, text |-> parsed_problem.choices[k]] :
                  k \in 1..Len(parsed_problem.choices)}]

\* parse_problems lines 108-142 and the saving loop, for one block of the text
\* whose adapter was chosen.
parse_and_save(b) ==
  /\ best # << >>
  /\ best[1].adapter # EmptyAdapter
  /\ block' = <<b>>
  /\ persisted' = LET parsed_problems == _parse_problem_block(b, best[1].adapter)
                   IN IF parsed_problems = << >> THEN << >>
                      ELSE <<SavedRows(parsed_problems[1])>>
  /\ UNCHANGED <<listing, adapters, best, restVars>>

\* AdapterEngine.__init__ (lines 27-29) on any adapter directory; no request
\* has been served and the database is empty.
EngineInit ==
  /\ declared = SrcAttrs
  /\ now = 0 /\ files = << >> /\ tmpfiles = {} /\ docs = << >> /\ jobs = << >> /\ problems = {}
  /\ sessions = {} /\ uploads = << >> /\ tasks = {} /\ runs = << >>
  /\ nDocs = 0 /\ nJobs = 0 /\ nTasks = 0 /\ nProblems = 0 /\ nSessions = 0 /\ nRequests = 0
  /\ session_problems = {} /\ attempts = {} /\ nAttempts = 0 /\ exposed = {}
  /\ listing \in Listings
  /\ adapters = _load_adapters(listing)
  /\ best = << >> /\ block = << >> /\ persisted = << >>
  /\ health = << >>
  /\ problem_choices = {}

EngineNext ==
  \/ \E text \in Texts : select_best_adapter(text)
  \/ \E b \in Blocks : parse_and_save(b)

EngineSpec == EngineInit /\ [][EngineNext]_vars

\* ================================================================== claims
Terminal == {"done", "error"}

\* C1: within one pipeline run every value written to job.progress is greater
\* than or equal to the one written before it, and a job's progress goes back
\* to 0 only in a start_import that restarts a job whose status is error.
C1_Step ==
  /\ \A t \in (DOMAIN runs) \cap (DOMAIN runs') :
       /\ runs[t].pc # "analysis" => runs'[t].obj.progress >= runs[t].obj.progress
       /\ runs'[t].obj # runs[t].obj => runs'[t].obj.progress > 0
  /\ \A j \in (DOMAIN jobs) \cap (DOMAIN jobs') :
       (jobs[j].progress # 0 /\ jobs'[j].progress = 0)
         => (jobs[j].status = "error" /\ start_import(j))

C2_Step ==
  \A j \in DOMAIN jobs :
    start_import(j) =>
      /\ jobs[j].status = "queued" =>
           /\ jobs'[j].status = "running"
           /\ \E task \in tasks' : tasks' = tasks \cup {task} /\ task \notin tasks /\ task.job = j
      /\ jobs[j].status \in {"running", "done"} =>
           /\ start_import_outcome(j).code = 400
           /\ jobs'[j] = jobs[j]
           /\ tasks' = tasks

C2_StartImport == [][C2_Step]_vars

\* C3: an exception that reaches the handler of steps 1-5 (source file missing,
\* no text extracted, no problem parsed, decryption failure, session creation
\* failure) ends the run: the job is stored with status error, the message and
\* finished_at, and the only thing the run still does is return.
C3_Raised(t) ==
  LET f == runs[t]
      path == docs[f.obj.source_doc_id].storage_path
  IN \/ f.pc = "analysis" /\ path \notin DOMAIN files
     \/ f.pc = "analysis" /\ f.kind = "password"
          /\ decrypt_error(ReadFile(files, path), f.password) # None
     \/ f.pc = "pages" /\ f.k = f.n /\ ~f.text
     \/ f.pc = "blocks" /\ f.k = f.n /\ f.cnt = 0

C3_Failed(t) ==
  /\ runs[t].pc = "finally"
  /\ jobs[runs[t].job].status = "error"
  /\ jobs[runs[t].job].error_message = runs[t].err
  /\ jobs[runs[t].job].finished_at

C3_Step ==
  \A t \in DOMAIN runs :
    /\ C3_Raised(t) => (t \in DOMAIN runs' /\ runs'[t].err # None)
    /\ runs[t].err # None => (t \notin DOMAIN runs' /\ jobs' = jobs /\ problems' = problems
                                /\ sessions' = sessions)

C4_RunningEnds ==
  \A j \in 1..MaxJobs :
    (j \in DOMAIN jobs /\ jobs[j].status = "running")
      ~> (j \notin DOMAIN jobs \/ jobs[j].status \in Terminal)

\* C5: a stored job with status done has progress 100, finished_at set and an
\* extracted_count equal to the number of problems the completing run saved.
SavedBy(t) == {p \in problems : p.by = t}

StageOrder == <<"analysis", "extraction", "parsing", "saving", "session", "done">>

StageIndex(stage) == CHOOSE i \in 1..Len(StageOrder) : StageOrder[i] = stage

C6_OneRunPerJob ==
  \A t1, t2 \in DOMAIN runs : runs[t1].job = runs[t2].job => t1 = t2

C6_Step ==
  /\ \A t \in (DOMAIN runs) \cap (DOMAIN runs') :
       IF runs[t].pc = "analysis"
       THEN runs'[t].obj.stage = "analysis"
       ELSE StageIndex(runs'[t].obj.stage) \in
              {StageIndex(runs[t].obj.stage), StageIndex(runs[t].obj.stage) + 1}
  /\ \A t \in DOMAIN runs :
       LET j == runs[t].job
       IN (j \in DOMAIN jobs' /\ jobs'[j] # jobs[j])
            => (t \in DOMAIN runs' /\ jobs'[j] = runs'[t].obj)

C7_Unique ==
  \A d1, d2 \in DOMAIN docs :
    (docs[d1].sha256 = docs[d2].sha256 /\ docs[d1].filename = docs[d2].filename) => d1 = d2

C7_Hash(u) == calculate_sha256(ReadFile(Written(u), u.path))

C7_Matches(u) ==
  {d \in DOMAIN docs : docs[d].sha256 = C7_Hash(u) /\ docs[d].filename = u.filename}

C7_Step ==
  \A i \in DOMAIN uploads :
    UploadFinish(i) =>
      LET u == uploads[i]
      IN /\ C7_Matches(u) # {} =>
              /\ docs' = docs
              /\ \/ jobs' = jobs
                 \/ /\ DOMAIN jobs' = (DOMAIN jobs) \cup {nJobs + 1}
                    /\ jobs'[nJobs + 1].source_doc_id \in C7_Matches(u)
                    /\ \A j \in DOMAIN jobs : jobs'[j] = jobs[j]
         /\ (/\ C7_Matches(u) = {}
             /\ \E d \in DOMAIN docs : docs[d].sha256 = C7_Hash(u)
             /\ upload_outcome(u).code = 200) =>
              /\ DOMAIN docs' = (DOMAIN docs) \cup {nDocs + 1}
              /\ nDocs + 1 \notin DOMAIN docs
              /\ docs'[nDocs + 1].filename = u.filename
              /\ docs'[nDocs + 1].sha256 = C7_Hash(u)

C7_Dedup == []C7_Unique /\ [][C7_Step]_vars

\* The same bytes are stored under two filenames.
C7_Witness ==
  \E d1, d2 \in DOMAIN docs :
    docs[d1].sha256 = docs[d2].sha256 /\ docs[d1].filename # docs[d2].filename

\* C8: an upload of an encrypted PDF with a password that fails validation is
\* answered 400 with the validation message, its file is deleted and no
\* SourceDoc or ImportJob is created.
C8_Step ==
  \A i \in DOMAIN uploads :
    (/\ UploadFinish(i)
     /\ check_encryption(uploads[i].data) = "True"
     /\ uploads[i].password # None
     /\ ~validate_password(uploads[i].data, uploads[i].password).valid) =>
      /\ upload_outcome(uploads[i]).code = 400
      /\ upload_outcome(uploads[i]).detail =
           validate_password(uploads[i].data, uploads[i].password).message
      /\ uploads[i].path \notin DOMAIN files'
      /\ docs' = docs /\ jobs' = jobs

C8_BadPasswordRejected == [][C8_Step]_vars

\* C9: delete_import_job removes the job, and removes its SourceDoc row exactly
\* when no other job references it; every job references an existing SourceDoc.
C9_Referenced ==
  \A j \in DOMAIN jobs : jobs[j].source_doc_id \in DOMAIN docs

C9_Step ==
  \A j \in DOMAIN jobs : \A removed \in BOOLEAN :
    delete_import_job(j, removed) =>
      LET d == jobs[j].source_doc_id
      IN /\ DOMAIN jobs' = (DOMAIN jobs) \ {j}
         /\ \A k \in DOMAIN jobs' : jobs'[k] = jobs[k]
         /\ d \notin DOMAIN docs' <=> JobsOf(d) \ {j} = {}
         /\ \A e \in (DOMAIN docs) \ {d} : e \in DOMAIN docs' /\ docs'[e] = docs[e]
         /\ (d \notin DOMAIN docs' /\ removed) => docs[d].storage_path \notin DOMAIN files'

C9_Delete == []C9_Referenced /\ [][C9_Step]_vars

\* A job was deleted and another job remains.
C9_Witness ==
  /\ Cardinality(DOMAIN jobs) = 1 /\ nJobs = 2
  /\ Cardinality(DOMAIN docs) = 1 /\ nDocs = 2

C11_InRange ==
  \A x \in sessions :
    0 <= x.current_problem_index /\ x.current_problem_index < x.total_problems

C11_Step ==
  \A s \in SessionIds :
    (/\ move_to_next_problem(s)
     /\ HasSession(s)
     /\ GetSession(s).current_problem_index + 1 = GetSession(s).total_problems)
    => /\ move_to_next_problem_outcome(s).code = 400
       /\ sessions' = sessions

C11_IndexInRange == []C11_InRange /\ [][C11_Step]_vars

\* A session has been moved to its last problem and another request can follow.
C11_Witness ==
  \E x \in sessions :
    /\ x.total_problems >= 2
    /\ x.current_problem_index + 1 = x.total_problems
    /\ x.last_accessed_at # NoInt
    /\ nRequests < MaxRequests

\* C13: for every session, made by create_session or by the pipeline,
\* total_problems is the number of its SessionProblem rows, and no operation
\* other than deleting the session changes total_problems or that number.
C13_Counted ==
  \A x \in sessions : x.total_problems = Cardinality(SessionProblemsOf(x.id))

C13_Step ==
  \A x \in sessions :
    \/ \E y \in sessions' :
         /\ y.id = x.id
         /\ y.total_problems = x.total_problems
         /\ {sp \in session_problems' : sp.session_id = x.id} # {}
         /\ Cardinality({sp \in session_problems' : sp.session_id = x.id})
              = Cardinality(SessionProblemsOf(x.id))
    \/ /\ \E fault \in Faults : delete_session(x.id, fault)
       /\ \A y \in sessions' : y.id # x.id

C14_Step ==
  \A f \in Subjects \cup {None} : \A m \in MaxProblemsInputs :
    (create_session(f, m) /\ SelectProblems(f, m) = << >>)
    => /\ create_session_outcome(f, m).code = 400
       /\ sessions' = sessions
       /\ session_problems' = session_problems

C14_NoMatchRejected == [][C14_Step]_vars

\* C15: deleting a session removes the session row, every SessionProblem and
\* every Attempt that references it, all together; when the deletion fails
\* part-way the three tables are left exactly as they were.
C15_Step ==
  \A s \in SessionIds : \A fault \in Faults :
    (delete_session(s, fault) /\ HasSession(s))
    => IF delete_session_outcome(s, fault).code = 200
       THEN /\ \A x \in sessions' : x.id # s
            /\ \A sp \in session_problems' : sp.session_id # s
            /\ \A a \in attempts' : a.session_id # s
            /\ sessions' = {x \in sessions : x.id # s}
            /\ session_problems' = {sp \in session_problems : sp.session_id # s}
            /\ attempts' = {a \in attempts : a.session_id # s}
       ELSE /\ fault # "none"
            /\ sessions' = sessions
            /\ session_problems' = session_problems
            /\ attempts' = attempts

C15_DeleteAtomic == [][C15_Step]_vars

\* A session that had an attempt has been deleted with all its rows.
C15_Witness ==
  /\ nSessions > 0 /\ sessions = {} /\ session_problems = {}
  /\ nAttempts > 0 /\ attempts = {}

\* C16: for a multiple_choice or true_false problem a submitted answer is
\* recorded with is_correct = TRUE exactly when the submitted choice index
\* equals the problem's correct_answer_index (an absent index gives FALSE),
\* through the attempts API and through the session's submit-answer alike.
ChoiceBased == {"multiple_choice", "true_false"}

C16_Step ==
  /\ \A p \in ProblemIds : \A s \in AttemptSessionIds : \A in \in AttemptInputs :
       (/\ submit_attempt(p, s, in[1], in[2])
        /\ submit_attempt_outcome(p, s, in[1], in[2]).code = 200
        /\ GetProblem(p).problem_type \in ChoiceBased)
       => \E a \in attempts' \ attempts :
            a.is_correct = (in[1] # NoInt /\ in[1] = GetProblem(p).correct_answer_index)
  /\ \A s \in SessionIds : \A c \in ChoiceIndexes :
       (/\ submit_answer(s, c)
        /\ submit_answer_outcome(s, c).code = 200
        /\ HasProblem(CurrentSessionProblem(s).problem_id)
        /\ GetProblem(CurrentSessionProblem(s).problem_id).problem_type \in ChoiceBased)
       => \E a \in attempts' \ attempts :
            a.is_correct =
              (c = GetProblem(CurrentSessionProblem(s).problem_id).correct_answer_index)

C16_ChoiceCorrectness == [][C16_Step]_vars

\* C17: an attempt submission answers 400 when the problem is absent, when a
\* choice-based problem comes without a choice index, or when a short-answer
\* problem comes without answer text; then no Attempt is stored and no
\* SessionProblem is marked completed.
C17_Step ==
  \A p \in ProblemIds : \A s \in AttemptSessionIds : \A in \in AttemptInputs :
    (/\ submit_attempt(p, s, in[1], in[2])
     /\ \/ ~HasProblem(p)
        \/ HasProblem(p) /\ GetProblem(p).problem_type \in ChoiceBased /\ in[1] = NoInt
        \/ HasProblem(p) /\ GetProblem(p).problem_type = "short_answer"
             /\ in[2] \in {None, ""})
    => /\ submit_attempt_outcome(p, s, in[1], in[2]).code = 400
       /\ attempts' = attempts
       /\ session_problems' = session_problems

C17_InvalidAttemptRejected == [][C17_Step]_vars

\* C18: the public catalogue never exposes an unapproved problem: a list
\* returns approved problems only and counts only those, and get-by-id answers
\* 404 for a problem that is absent or unapproved.
Approved == {p \in problems : p.is_approved}

C18_OnlyApproved ==
  \A id \in exposed : \E p \in Approved : p.id = id

\* What the two operations answer in the current state, for every request.
C18_Answers ==
  /\ \A f \in Subjects \cup {None} : \A g \in Pages : \A z \in PageSizes :
       /\ list_problems_outcome(f, g, z).problems \subseteq {p.id : p \in Approved}
       /\ list_problems_outcome(f, g, z).total_count <= Cardinality(Approved)
       /\ f = None => list_problems_outcome(f, g, z).total_count = Cardinality(Approved)
  /\ \A id \in ProblemIds :
       ~(\E p \in Approved : p.id = id) => get_problem_outcome(id).code = 404

C18_CatalogApprovedOnly == C18_OnlyApproved /\ C18_Answers

\* The catalogue has returned a problem while the table holds an unapproved one.
C18_Witness ==
  /\ exposed # {}
  /\ \E p \in problems : ~p.is_approved

\* C19: every choice-based Problem the import pipeline persists whose
\* correct_answer_index is set has a ProblemChoice with that choice_index:
\* 0 <= correct_answer_index < number of choices stored for the problem.
C19_AnswerIndexReferencesChoice ==
  \A r \in InSet(persisted) :
    (r.problem.problem_type = "multiple_choice" /\ r.problem.correct_answer_index # NoInt)
      => /\ \E c \in r.choices : c.choice_index = r.problem.correct_answer_index
         /\ 0 <= r.problem.correct_answer_index
         /\ r.problem.correct_answer_index < Cardinality(r.choices)

\* The score (in halves) of a loaded adapter for the text of the last call.
ScoreOf(i) == _score_adapter(adapters[i], best[1].text)

TopScore == CHOOSE m \in {ScoreOf(i) : i \in 1..Len(adapters)} :
              \A i \in 1..Len(adapters) : ScoreOf(i) <= m

\* What the call would return had the directory been listed in the order l.
ReturnedFor(l) == select_best_adapter_of(_load_adapters(l), best[1].text)

\* C20: select_best_adapter returns the loaded adapter with the highest score
\* (+2 per question-pattern match, +1 per choice-marker literal present, +3 per
\* answer-pattern match, +0.5 per subject keyword present); among the adapters
\* tied on that score, the earliest in priority order; the first adapter in
\* priority order when no adapter scores above zero; the empty adapter when
\* none is loaded.  Another load order changes the result only to an adapter
\* of the same score and the same priority.
C20_BestAdapter ==
  best # << >> =>
    /\ \A i \in 1..(Len(adapters) - 1) : adapters[i].priority >= adapters[i + 1].priority
    /\ adapters = << >> => best[1].adapter = EmptyAdapter
    /\ (adapters # << >> /\ TopScore <= 0) => best[1].adapter = adapters[1]
    /\ (adapters # << >> /\ TopScore > 0) =>
         \E i \in 1..Len(adapters) :
           /\ best[1].adapter = adapters[i]
           /\ ScoreOf(i) = TopScore
           /\ \A j \in 1..(i - 1) : ScoreOf(j) < TopScore
    /\ \A l \in Listings :
         InSet(l) = InSet(listing) =>
           \/ ReturnedFor(l) = best[1].adapter
           \/ /\ ReturnedFor(l).priority = best[1].adapter.priority
              /\ _score_adapter(ReturnedFor(l), best[1].text)
                   = _score_adapter(best[1].adapter, best[1].text)

\* Two loaded adapters of the same priority tie on the highest score, which is
\* above zero, and the one loaded first was returned.
C20_Witness ==
  /\ best # << >>
  /\ Len(adapters) >= 2
  /\ TopScore > 0
  /\ \E i, j \in 1..Len(adapters) :
       /\ i < j
       /\ ScoreOf(i) = TopScore /\ ScoreOf(j) = TopScore
       /\ adapters[i].priority = adapters[j].priority
       /\ best[1].adapter = adapters[i]

\* What start_import leaves of a job that was in error, apart from stage and log.
C21_Restarted(j) ==
  /\ start_import_outcome(j).code = 200
  /\ jobs'[j].status = "running"
  /\ jobs'[j].progress = 0
  /\ jobs'[j].error_message = None
  /\ jobs'[j].finished_at = FALSE
  /\ \E task \in tasks' : tasks' = tasks \cup {task} /\ task \notin tasks /\ task.job = j

\* C21 as stated: start_import on a job in error leaves it running with progress
\* 0, an empty stage, an empty log, no error message and no finished_at, and
\* schedules one pipeline run.
C21_Step ==
  \A j \in DOMAIN jobs :
    (start_import(j) /\ jobs[j].status = "error") =>
      /\ C21_Restarted(j)
      /\ jobs'[j].stage = ""
      /\ jobs'[j].logs = << >>

C21_AmendedStep ==
  \A j \in DOMAIN jobs :
    (start_import(j) /\ jobs[j].status = "error") =>
      /\ C21_Restarted(j)
      /\ jobs'[j].stage = "waiting"
      /\ jobs'[j].logs = <<"Job reset after error", "Import process started">>

C22_Answers ==
  \A r \in InSet(health) :
    /\ r.code = 200
    /\ \/ r.status = "healthy" /\ r.service = "examply-api" /\ r.version = "0.1.0"
       \/ r.status = "healthy" /\ r.database = "connected"
       \/ r.status = "unhealthy" /\ r.error \in QueryErrors \ {None}

\* C22: the liveness check answers 200 with status healthy, service examply-api
\* and version 0.1.0; the connectivity check answers 200, healthy and connected
\* when the query succeeds, unhealthy with the error message of the query when
\* it fails; neither changes anything stored, scheduled or running.
C22_Step ==
  /\ health_check =>
       /\ health'[1].code = 200 /\ health'[1].status = "healthy"
       /\ health'[1].service = "examply-api" /\ health'[1].version = "0.1.0"
       /\ UNCHANGED <<stored, tasks, runs, uploads>>
  /\ \A e \in QueryErrors :
       database_health_check(e) =>
         /\ health'[1].code = 200
         /\ e = None => health'[1].status = "healthy" /\ health'[1].database = "connected"
         /\ e # None => health'[1].status = "unhealthy" /\ health'[1].error = e
         /\ UNCHANGED <<stored, tasks, runs, uploads>>

C22_HealthReadOnly == []C22_Answers /\ [][C22_Step]_vars

\* The connectivity check has answered unhealthy while a job is stored and a run
\* is scheduled.
C22_Witness ==
  /\ health # << >>
  /\ health[1].status = "unhealthy"
  /\ DOMAIN jobs # {} /\ tasks # {}

\* C23: create_problem stores the Problem and all of its ProblemChoice rows in
\* one transaction: a call with well-formed input stores the Problem with every
\* choice of the input, and after any call, failed or not, either the Problem
\* and all its choices are stored or nothing of it is.
C23_Step ==
  \A d \in ProblemInputs :
    create_problem(d) =>
      LET id == NextProblemId
          wanted == IF d.has_choices THEN Len(d.choices) ELSE 0
          all == /\ \E p \in problems' \ problems : p.id = id
                 /\ Cardinality({c \in problem_choices' : c.problem_id = id}) = wanted
      IN /\ (~d.has_choices \/ WellFormed(d)) => all
         /\ all \/ (problems' = problems /\ problem_choices' = problem_choices)

C23_CreateProblemAtomic == [][C23_Step]_vars

\* The extractor progress values a run in the page loop has handed to
\* _update_extraction_progress so far: 0 when the file was opened, then
\* int(page_num / total_pages * 100) for each page begun.
CallbacksMade(f) ==
  <<0>> \o [j \in 1..f.k |-> ((j - 1) * 100) \div f.n]

C26_StoredFilesExist ==
  \A d \in DOMAIN docs : docs[d].storage_path \in DOMAIN files

\* C27: done is terminal: a job that is done keeps its status, progress and
\* extracted_count for as long as it exists, and no pipeline run is scheduled
\* for it any more.
C27_Step ==
  \A j \in (DOMAIN jobs) \cap (DOMAIN jobs') :
    jobs[j].status = "done" =>
      /\ jobs'[j].status = "done"
      /\ jobs'[j].progress = jobs[j].progress
      /\ jobs'[j].extracted_count = jobs[j].extracted_count
      /\ \A task \in tasks' \ tasks : task.job # j

C29_Step ==
  \A x \in sessions : \A y \in sessions' :
    y.id = x.id => y.current_problem_index >= x.current_problem_index

C29_IndexNeverDecreases == [][C29_Step]_vars

\* The sessions a run has created for its document.
SessionsBy(t, d) == {x \in sessions : x.by = t /\ x.source_doc_id = d}

\* A session linked to a document that still has its rows belongs to a
\* document one of whose jobs has reached done.  The run that makes the session
\* commits it together with status done (lines 183-192), so a session of a
\* run that is still executing is not stored yet.
C30_Linked ==
  \A x \in sessions :
    (x.by # 0 /\ x.by \notin DOMAIN runs /\ x.source_doc_id \in DOMAIN docs) =>
      \E j \in JobsOf(x.source_doc_id) : jobs[j].doneBy # 0

\* A run that ends in done has created exactly one session.
C30_Step ==
  \A t \in 1..MaxTasks :
    RunComplete(t) =>
      Cardinality(SessionsBy(t, runs[t].obj.source_doc_id)) = 1

C30_AmendedStep ==
  \A t \in 1..MaxTasks :
    RunComplete(t) =>
      LET d == runs[t].obj.source_doc_id
      IN Cardinality(SessionsBy(t, d)) = (IF ProblemsOf(d) # {} THEN 1 ELSE 0)

====
